---- MODULE Spec2Model ----
(***************************************************************************)
(* State-machine model of the world-map application: the App component     *)
(* (selection, city form, location resolution), the MapView component      *)
(* (geometry load, render effect, PNG export) and the CountrySelector      *)
(* component (country-list load).                                          *)
(*                                                                         *)
(* React semantics used throughout: an event handler is a closure over the *)
(* values of the render that created it (variable `rendered`); a state     *)
(* setter only queues an update, which becomes visible to handlers at the  *)
(* next render (action Render).  Functional updaters (prev => ...) are     *)
(* applied to the latest queued value, so the component state variables    *)
(* below hold that latest value.                                           *)
(***************************************************************************)
EXTENDS Integers, Sequences, FiniteSets, TLC

(***************************************************************************)
(* Bounds                                                                  *)
(***************************************************************************)
MaxCities == 3      \* longest city sequence explored
MaxCalls == 2       \* most location-resolution calls in flight
MaxPending == 2     \* most events handled between two renders
MaxExports == 2     \* most exports in flight
MaxText == 1        \* longest text typed into the city input
MaxPan == 2         \* farthest translation explored, in drags


(***************************************************************************)
(* Data                                                                    *)
(***************************************************************************)
\* Characters of the city input; " " is whitespace.
Chars == {" ", "s"}

Texts == UNION {[1..n -> Chars] : n \in 0..MaxText}

RECURSIVE TrimStart(_)
TrimStart(t) ==
  IF t # <<>> /\ Head(t) = " " THEN TrimStart(Tail(t)) ELSE t

RECURSIVE TrimEnd(_)
TrimEnd(t) ==
  IF t # <<>> /\ t[Len(t)] = " " THEN TrimEnd(SubSeq(t, 1, Len(t) - 1)) ELSE t

\* String.prototype.trim
Trim(t) == TrimEnd(TrimStart(t))

\* Values JSON.parse can return for a response body.  latT / lngT are the
\* JavaScript typeof of the field ("undefined" when the field is absent).
JsonValue(kind, name, latT, lat, lngT, lng) ==
  [kind |-> kind, name |-> name, latT |-> latT, lat |-> lat, lngT |-> lngT, lng |-> lng]

Shanghai == JsonValue("object", "Shanghai", "number", 31, "number", 121)
NoLat == JsonValue("object", "Atlantis", "undefined", 0, "number", 5)
JsonNull == JsonValue("null", "", "undefined", 0, "undefined", 0)

ParsedValues == {Shanghai, NoLat, JsonNull}

\* Markers at two corners of the coordinate domain and one outside it.
SouthWest == JsonValue("object", "SouthWest", "number", -90, "number", -180)
NorthEast == JsonValue("object", "NorthEast", "number", 90, "number", 180)
FarOut == JsonValue("object", "FarOut", "number", 100, "number", 200)

\* A value that satisfies the City interface: an object with numeric lat, lng.
IsCityMarker(v) == v.kind = "object" /\ v.latT = "number" /\ v.lngT = "number"

\* How a location-resolution call can settle: the service rejects, the body
\* is not JSON, or the body parses to some value.
Responses ==
  {[how |-> "rejected", value |-> JsonNull], [how |-> "unparseable", value |-> JsonNull]}
    \cup {[how |-> "parsed", value |-> v] : v \in ParsedValues}

IsFailure(r) == r.how \in {"rejected", "unparseable"}

\* JavaScript undefined as the value of a feature's id or name.
Undefined == "<undefined>"

\* Value of `name` for a geometry that has no properties object at all.
NoProperties == "<no properties>"

\* String(x), and x used as a property key
StringOf(x) == IF x = Undefined THEN "undefined" ELSE x

\* Geometry documents (the features of objects.countries) the geometry source
\* can serve.
WorldAtlas ==
  << [id |-> "156", name |-> "China"],
     [id |-> "840", name |-> "United States of America"],
     [id |-> "010", name |-> "Antarctica"] >>

SmallAtlas ==
  << [id |-> "156", name |-> "China"],
     [id |-> "010", name |-> "Antarctica"] >>

\* Antarctica under other ids and names, or with one of the two missing.
PolarAtlas ==
  << [id |-> "156", name |-> "China"],
     [id |-> "010", name |-> "Antarctique"],
     [id |-> "010", name |-> Undefined],
     [id |-> "999", name |-> "Antarctica"],
     [id |-> Undefined, name |-> "Antarctica"] >>

\* One geometry without a properties object between two well-formed ones.
BrokenAtlas ==
  << [id |-> "156", name |-> "China"],
     [id |-> "484", name |-> NoProperties],
     [id |-> "840", name |-> "United States of America"] >>

\* Two countries whose geometries carry no id, next to one that has one.
IdlessAtlas ==
  << [id |-> "156", name |-> "China"],
     [id |-> Undefined, name |-> "Kosovo"],
     [id |-> Undefined, name |-> "Somaliland"] >>

AtlasDocs == {WorldAtlas, SmallAtlas, PolarAtlas, BrokenAtlas, IdlessAtlas}

\* Localization document: name -> translation.
MetaData ==
  << [common |-> "China", official |-> "People's Republic of China",
      zho |-> "ZhongGuo", region |-> "Asia"],
     [common |-> "Antarctica", official |-> "Antarctica",
      zho |-> "NanJiZhou", region |-> "Antarctic"] >>

Ids == UNION {{StringOf(doc[i].id) : i \in 1..Len(doc)} : doc \in AtlasDocs}

Colors == {"#f97316", "#2563eb"}

\* Container widths (the container keeps a 16:9 aspect ratio).
Widths == {800, 1600}

HeightOf(w) == (w * 9) \div 16

Min(a, b) == IF a < b THEN a ELSE b

(***************************************************************************)
(* State                                                                   *)
(***************************************************************************)
VARIABLES
  atlas,               \* the document the geometry source serves
  mounted,             \* the component tree is mounted
  selectedCountryIds,  \* App state
  cities,              \* App state
  cityInput,           \* App state
  isLocating,          \* App state
  countryColor,        \* App state (style)
  rendered,            \* values captured by the handlers of App's last render
  pendingUpdates,      \* App state updates queued since App's last render
  inFlight,            \* location-resolution calls that have not settled
  lastResponse,        \* how the last settled call ended
  alertRaised,         \* the last settled call raised the alert
  mvGeo, mvMeta,       \* MapView fetches: "pending" | "fulfilled" | "rejected"
  mvLoad,              \* MapView load: "waiting" | "done" | "unhandled"
  worldData,           \* MapView state
  nameMap,             \* MapView state
  mvPending,           \* MapView state updated since its last render
  viewport,            \* container width in CSS pixels
  zoomK,               \* scale of the zoom transform kept on the svg node
  zoomX,               \* its horizontal translation, in drags of PanStep pixels
  scene,               \* content of the svg element
  exports,             \* exports whose image has not loaded yet
  download,            \* the last file handed to the browser
  csGeo, csMeta,       \* CountrySelector fetches
  csLoad,              \* CountrySelector load: "waiting" | "done" | "discarded" | "caught"
  csIsMounted,         \* CountrySelector effect flag
  countries,           \* CountrySelector state
  csShown,             \* country list of CountrySelector's last render
  resizeListeners,     \* 'resize' listeners of the render effect on window
  pointerOver,         \* index of the feature under the pointer (0: none)
  entered,             \* the path under the pointer has received a mouse event
  tooltip,             \* style.display and innerText of the tooltip element
  lateSetters,         \* components whose setters ran after teardown
  tog,                 \* history: consecutive toggles of one id
  rt                   \* history: append followed by removal at its index

appVars == <<selectedCountryIds, cities, cityInput, isLocating, countryColor>>
callVars == <<inFlight, lastResponse, alertRaised>>
mvLoadVars == <<mvGeo, mvMeta, mvLoad, worldData, nameMap>>
csVars == <<csGeo, csMeta, csLoad, csIsMounted, countries, csShown>>
exportVars == <<exports, download>>
pointerVars == <<pointerOver, entered, tooltip>>
histVars == <<tog, rt>>

vars ==
  <<atlas, mounted, selectedCountryIds, cities, cityInput, isLocating, countryColor,
    rendered, pendingUpdates, inFlight, lastResponse, alertRaised, mvGeo, mvMeta, mvLoad,
    worldData, nameMap, mvPending, viewport, zoomK, zoomX, scene, exports, download,
    csGeo, csMeta, csLoad, csIsMounted, countries, csShown, resizeListeners,
    pointerOver, entered, tooltip, lateSetters, tog, rt>>

\* An svg element without children.  transform 0 stands for a group without
\* a transform attribute.
EmptyScene ==
  [drawn |-> FALSE, groups |-> 0, rects |-> 0, paths |-> 0, sel |-> {},
   cities |-> <<>>, markers |-> <<>>, color |-> "", width |-> 0,
   transform |-> 0, translate |-> 0]

\* The tooltip element: class "hidden", no text.
NoTooltip == [display |-> "none", text |-> ""]

\* useState<any>(null): loaded is FALSE while worldData is null.
NoWorldData == [loaded |-> FALSE, features |-> <<>>]

\* useState<Record<string, string>>({})
EmptyNameMap == [id \in {} |-> ""]

NoDownload ==
  [file |-> "", image |-> EmptyScene, width |-> 0, height |-> 0,
   at |-> [scene |-> EmptyScene, viewport |-> 0, loaded |-> FALSE],
   changed |-> FALSE]

NoTog == [n |-> 0, id |-> "", base |-> {}, from |-> {}]
NoRt == [idx |-> -1, base |-> <<>>, removed |-> FALSE]

\* The values an App render hands to its handlers.  exportBound: the export
\* button's onClick, mapRef.current?.exportToPng, is a function.
Snapshot(bound) ==
  [selectedCountryIds |-> selectedCountryIds, cities |-> cities,
   cityInput |-> cityInput, isLocating |-> isLocating,
   countryColor |-> countryColor, exportBound |-> bound]

Init ==
  /\ atlas \in AtlasDocs
  /\ mounted = TRUE
  /\ selectedCountryIds = {}
  /\ cities = <<>>
  /\ cityInput = <<>>
  /\ isLocating = FALSE
  /\ countryColor = "#f97316"
  /\ rendered = [selectedCountryIds |-> {}, cities |-> <<>>, cityInput |-> <<>>,
                 isLocating |-> FALSE, countryColor |-> "#f97316", exportBound |-> FALSE]
  /\ pendingUpdates = 0
  /\ inFlight = 0
  /\ lastResponse = "none"
  /\ alertRaised = FALSE
  /\ mvGeo = "pending"
  /\ mvMeta = "pending"
  /\ mvLoad = "waiting"
  /\ worldData = NoWorldData
  /\ nameMap = EmptyNameMap
  /\ mvPending = FALSE
  /\ viewport \in Widths
  /\ zoomK = 1
  /\ zoomX = 0
  /\ scene = EmptyScene
  /\ resizeListeners = 0
  /\ pointerOver = 0
  /\ entered = FALSE
  /\ tooltip = NoTooltip
  /\ exports = <<>>
  /\ download = NoDownload
  /\ csGeo = "pending"
  /\ csMeta = "pending"
  /\ csLoad = "waiting"
  /\ csIsMounted = TRUE
  /\ countries = <<>>
  /\ csShown = <<>>
  /\ lateSetters = {}
  /\ tog = NoTog
  /\ rt = NoRt

(***************************************************************************)
(* App: handlers                                                           *)
(***************************************************************************)
\* One more queued update; completions of asynchronous work are never held
\* back by the bound on events between renders.
Queued(n) == Min(n + 1, MaxPending)

\* ToggleUpdater as a plausible slip: the id is only ever added.
ToggleUpdaterAddOnly(prev, id) == prev \cup {id}

\* prev => { next = new Set(prev); has ? delete : add; return next }
ToggleUpdater(prev, id) ==
  IF id \in prev THEN prev \ {id} ELSE prev \cup {id}

\* History: the second of two consecutive toggles of `id` completes the pair
\* that started from tog.base; any other toggle starts a new pair.
Toggled(id, source) ==
  IF tog.n = 1 /\ tog.id = id
    THEN [tog EXCEPT !.n = 2, !.from = @ \cup {source}]
    ELSE [n |-> 1, id |-> id, base |-> selectedCountryIds, from |-> {source}]

handleToggleCountry(id) ==
  /\ selectedCountryIds' = ToggleUpdater(selectedCountryIds, id)
  /\ pendingUpdates' = pendingUpdates + 1
  /\ UNCHANGED <<atlas, pointerVars, resizeListeners, mounted, cities, cityInput, isLocating, countryColor, rendered,
                 callVars, mvLoadVars, mvPending, viewport, zoomK, zoomX, scene,
                 exportVars, csVars, lateSetters, rt>>

\* onChange of the city text input.
TypeCity(t) ==
  /\ mounted
  /\ pendingUpdates < MaxPending
  /\ t # cityInput
  /\ cityInput' = t
  /\ pendingUpdates' = pendingUpdates + 1
  /\ UNCHANGED <<atlas, pointerVars, resizeListeners, mounted, selectedCountryIds, cities, isLocating, countryColor,
                 rendered, callVars, mvLoadVars, mvPending, viewport, zoomK, zoomX, scene,
                 exportVars, csVars, lateSetters, histVars>>

\* onChange of the country colour input.
SetCountryColor(c) ==
  /\ mounted
  /\ pendingUpdates < MaxPending
  /\ c # countryColor
  /\ countryColor' = c
  /\ pendingUpdates' = pendingUpdates + 1
  /\ UNCHANGED <<atlas, pointerVars, resizeListeners, mounted, selectedCountryIds, cities, cityInput, isLocating,
                 rendered, callVars, mvLoadVars, mvPending, viewport, zoomK, zoomX, scene,
                 exportVars, csVars, lateSetters, histVars>>

\* if (!cityInput.trim() || isLocating) return;  -- both read from the closure.
AddCityGuard(input, locating) == Trim(input) # <<>> /\ ~locating

\* handleAddCity up to its await: the guard, setIsLocating(true), the request.
SubmitCity ==
  /\ mounted
  /\ pendingUpdates < MaxPending
  /\ inFlight < MaxCalls
  /\ Len(cities) + inFlight < MaxCities
  /\ AddCityGuard(rendered.cityInput, rendered.isLocating)
  /\ isLocating' = TRUE
  /\ inFlight' = inFlight + 1
  /\ pendingUpdates' = pendingUpdates + 1
  /\ UNCHANGED <<atlas, pointerVars, resizeListeners, mounted, selectedCountryIds, cities, cityInput, countryColor,
                 rendered, lastResponse, alertRaised, mvLoadVars, mvPending,
                 viewport, zoomK, zoomX, scene, exportVars, csVars, lateSetters, histVars>>

\* CitiesAfter as a plausible slip: setCities([...cities, result]), which
\* appends to the sequence of a render instead of the latest one.
CitiesAfterFromRender(prev, r) ==
  IF r.how = "parsed" THEN Append(rendered.cities, r.value) ELSE prev

\* try { result = JSON.parse(response.text); setCities(prev => [...prev, result]) }
CitiesAfter(prev, r) ==
  IF r.how = "parsed" THEN Append(prev, r.value) ELSE prev

\* InputAfter as a plausible slip: setCityInput('') moved into finally.
InputAfterAlwaysCleared(input, r) == <<>>

\* setCityInput('') is reached only when nothing threw.
InputAfter(input, r) ==
  IF r.how = "parsed" THEN <<>> ELSE input

\* LocatingAfter as a plausible slip: setIsLocating(false) moved into try.
LocatingAfterSuccessOnly(locating, r) ==
  IF r.how = "parsed" THEN FALSE ELSE locating

\* finally { setIsLocating(false) }: reached however the call ended.
LocatingAfter(locating, r) == FALSE

\* handleAddCity after its await: try / catch / finally.
ResolveSettles(r) ==
  /\ inFlight > 0
  /\ inFlight' = inFlight - 1
  /\ cities' = CitiesAfter(cities, r)
  /\ cityInput' = InputAfter(cityInput, r)
  /\ alertRaised' = IsFailure(r)
  /\ lastResponse' = r.how
  /\ isLocating' = LocatingAfter(isLocating, r)
  /\ pendingUpdates' = IF mounted THEN Queued(pendingUpdates) ELSE pendingUpdates
  /\ lateSetters' = IF mounted THEN lateSetters ELSE lateSetters \cup {"App"}
  /\ rt' = IF r.how = "parsed"
             THEN [idx |-> Len(cities), base |-> cities, removed |-> FALSE]
             ELSE rt
  /\ UNCHANGED <<atlas, pointerVars, resizeListeners, mounted, selectedCountryIds, countryColor, rendered, mvLoadVars,
                 mvPending, viewport, zoomK, zoomX, scene, exportVars, csVars, tog>>

RECURSIVE FilterFrom(_, _, _)
FilterFrom(s, i, index) ==
  IF s = <<>> THEN <<>>
  ELSE (IF i # index THEN <<Head(s)>> ELSE <<>>) \o FilterFrom(Tail(s), i + 1, index)

\* RemoveAt as a plausible slip: positions counted from 1.
RemoveAtOneBased(prev, index) == FilterFrom(prev, 1, index)

\* prev.filter((_, i) => i !== index), indexes from 0
RemoveAt(prev, index) == FilterFrom(prev, 0, index)

\* Click on the remove button of row `index` of the rendered city list.
removeCity(index) ==
  /\ mounted
  /\ pendingUpdates < MaxPending
  /\ index \in 0..(Len(rendered.cities) - 1)
  /\ cities' = RemoveAt(cities, index)
  /\ pendingUpdates' = pendingUpdates + 1
  /\ rt' = IF rt.idx = index /\ ~rt.removed THEN [rt EXCEPT !.removed = TRUE] ELSE NoRt
  /\ UNCHANGED <<atlas, pointerVars, resizeListeners, mounted, selectedCountryIds, cityInput, isLocating, countryColor,
                 rendered, callVars, mvLoadVars, mvPending, viewport, zoomK, zoomX, scene,
                 exportVars, csVars, lateSetters, tog>>

\* Click on the clear-all button.
ClearAll ==
  /\ mounted
  /\ pendingUpdates < MaxPending
  /\ selectedCountryIds' = {}
  /\ cities' = <<>>
  /\ pendingUpdates' = pendingUpdates + 1
  /\ tog' = NoTog
  /\ rt' = NoRt
  /\ UNCHANGED <<atlas, pointerVars, resizeListeners, mounted, cityInput, isLocating, countryColor, rendered, callVars,
                 mvLoadVars, mvPending, viewport, zoomK, zoomX, scene, exportVars, csVars,
                 lateSetters>>

(***************************************************************************)
(* Geometry and localization load (MapView, CountrySelector)               *)
(***************************************************************************)
\* NotAntarctica as a plausible slip: || in place of &&.
NotAntarcticaEither(f) == f.id # "010" \/ f.name # "Antarctica"

\* f.id !== "010" && f.properties.name !== "Antarctica"
NotAntarctica(f) == f.id # "010" /\ f.name # "Antarctica"

\* feature(atlasData, atlasData.objects.countries): a geometry without
\* properties becomes a feature with properties {} (name undefined).
TopoFeature(g) == [g EXCEPT !.name = IF @ = NoProperties THEN Undefined ELSE @]

\* g.properties.name on a raw geometry without properties throws; the filter
\* reads it for every geometry whose id is not "010".
FilterThrows(doc) ==
  \E i \in 1..Len(doc) : doc[i].id # "010" /\ doc[i].name = NoProperties

\* metaData.find(m => m.name.common === englishName || m.name.official === englishName)
MetaMatches(englishName) ==
  {i \in 1..Len(MetaData) :
     MetaData[i].common = englishName \/ MetaData[i].official = englishName}

\* Index of the first match, 0 when find returns undefined.
FindMeta(englishName) ==
  LET hits == MetaMatches(englishName)
  IN  IF hits = {} THEN 0 ELSE CHOOSE i \in hits : \A j \in hits : i <= j

\* meta?.translations?.zho?.common || englishName
Localize(englishName) ==
  IF FindMeta(englishName) = 0 THEN englishName ELSE MetaData[FindMeta(englishName)].zho

\* meta?.region || 'Other'
ContinentOf(englishName) ==
  IF FindMeta(englishName) = 0 THEN "Other" ELSE MetaData[FindMeta(englishName)].region

\* The feature set MapView keeps.
BuildFeatures(doc) ==
  SelectSeq([i \in 1..Len(doc) |-> TopoFeature(doc[i])], NotAntarctica)

\* mapping[f.id] = localized name, for each kept feature in order.
BuildNameMap(features) ==
  [id \in {StringOf(features[i].id) : i \in 1..Len(features)} |->
     LET last == CHOOSE i \in 1..Len(features) :
                   /\ StringOf(features[i].id) = id
                   /\ \A j \in 1..Len(features) : StringOf(features[j].id) = id => j <= i
     IN  Localize(features[last].name)]

\* Position of a display name under localeCompare(_, 'zh-Hans-CN').
CollationKey(name) ==
  CASE name = "China" -> 1
    [] name = "United States of America" -> 2
    [] name = "ZhongGuo" -> 3
    [] name = "NanJiZhou" -> 4
    [] OTHER -> 0

RECURSIVE InsertSorted(_, _)
InsertSorted(sorted, c) ==
  IF sorted = <<>> THEN <<c>>
  ELSE IF CollationKey(c.name) < CollationKey(Head(sorted).name)
         THEN <<c>> \o sorted
         ELSE <<Head(sorted)>> \o InsertSorted(Tail(sorted), c)

RECURSIVE SortByName(_)
SortByName(list) ==
  IF list = <<>> THEN <<>>
  ELSE InsertSorted(SortByName(SubSeq(list, 1, Len(list) - 1)), list[Len(list)])

\* geometries.filter(...).map(...).sort(...)
BuildCountryList(doc) ==
  LET kept == SelectSeq(doc, NotAntarctica)
  IN  SortByName([i \in 1..Len(kept) |->
                    [id |-> StringOf(kept[i].id), name |-> Localize(kept[i].name),
                     continent |-> ContinentOf(kept[i].name)]])

Settled == {"fulfilled", "rejected"}

\* Joined as a plausible slip: the callback is chained on the geometry fetch.
JoinedGeometryOnly(geo, meta) == geo = "fulfilled"

\* Promise.all([...]).then(cb): cb runs once both promises are fulfilled.
Joined(geo, meta) == geo = "fulfilled" /\ meta = "fulfilled"

MvGeoSettles(how) ==
  /\ mvGeo = "pending"
  /\ mvGeo' = how
  /\ UNCHANGED <<atlas, pointerVars, resizeListeners, mounted, appVars, rendered, pendingUpdates, callVars, mvMeta, mvLoad,
                 worldData, nameMap, mvPending, viewport, zoomK, zoomX, scene, exportVars,
                 csVars, lateSetters, histVars>>

MvMetaSettles(how) ==
  /\ mvMeta = "pending"
  /\ mvMeta' = how
  /\ UNCHANGED <<atlas, pointerVars, resizeListeners, mounted, appVars, rendered, pendingUpdates, callVars, mvGeo, mvLoad,
                 worldData, nameMap, mvPending, viewport, zoomK, zoomX, scene, exportVars,
                 csVars, lateSetters, histVars>>

\* MapView's .then callback: no check that the component is still mounted.
MvLoadThen ==
  /\ mvLoad = "waiting"
  /\ Joined(mvGeo, mvMeta)
  /\ mvLoad' = "done"
  /\ nameMap' = BuildNameMap(BuildFeatures(atlas))
  /\ worldData' = [loaded |-> TRUE, features |-> BuildFeatures(atlas)]
  /\ mvPending' = mounted
  /\ lateSetters' = IF mounted THEN lateSetters ELSE lateSetters \cup {"MapView"}
  /\ UNCHANGED <<atlas, pointerVars, resizeListeners, mounted, appVars, rendered, pendingUpdates, callVars, mvGeo, mvMeta,
                 viewport, zoomK, zoomX, scene, exportVars, csVars, histVars>>

\* Promise.all rejects as soon as one fetch has rejected; MapView chains no
\* .catch, so the rejection is left unhandled.
MvLoadFails ==
  /\ mvLoad = "waiting"
  /\ mvGeo = "rejected" \/ mvMeta = "rejected"
  /\ mvLoad' = "unhandled"
  /\ UNCHANGED <<atlas, pointerVars, resizeListeners, mounted, appVars, rendered, pendingUpdates, callVars, mvGeo, mvMeta,
                 worldData, nameMap, mvPending, viewport, zoomK, zoomX, scene, exportVars,
                 csVars, lateSetters, histVars>>

CsGeoSettles(how) ==
  /\ csGeo = "pending"
  /\ csGeo' = how
  /\ UNCHANGED <<atlas, pointerVars, resizeListeners, mounted, appVars, rendered, pendingUpdates, callVars, mvLoadVars,
                 mvPending, viewport, zoomK, zoomX, scene, exportVars, csMeta, csLoad,
                 csIsMounted, countries, csShown, lateSetters, histVars>>

CsMetaSettles(how) ==
  /\ csMeta = "pending"
  /\ csMeta' = how
  /\ UNCHANGED <<atlas, pointerVars, resizeListeners, mounted, appVars, rendered, pendingUpdates, callVars, mvLoadVars,
                 mvPending, viewport, zoomK, zoomX, scene, exportVars, csGeo, csLoad,
                 csIsMounted, countries, csShown, lateSetters, histVars>>

\* CountrySelector's .then callback: if (!isMounted) return; ... setCountries(list)
CsLoadThen ==
  /\ csLoad = "waiting"
  /\ Joined(csGeo, csMeta)
  /\ csLoad' = IF ~csIsMounted THEN "discarded"
              ELSE IF FilterThrows(atlas) THEN "caught" ELSE "done"
  /\ countries' = IF csIsMounted /\ ~FilterThrows(atlas)
                    THEN BuildCountryList(atlas) ELSE countries
  /\ lateSetters' = IF csIsMounted /\ ~mounted
                      THEN lateSetters \cup {"CountrySelector"} ELSE lateSetters
  /\ UNCHANGED <<atlas, pointerVars, resizeListeners, mounted, appVars, rendered, pendingUpdates, callVars, mvLoadVars,
                 mvPending, viewport, zoomK, zoomX, scene, exportVars, csGeo, csMeta,
                 csIsMounted, csShown, histVars>>

\* A fetch of CountrySelector has rejected: .catch logs the error.
CsLoadFails ==
  /\ csLoad = "waiting"
  /\ csGeo = "rejected" \/ csMeta = "rejected"
  /\ csLoad' = "caught"
  /\ UNCHANGED <<atlas, pointerVars, resizeListeners, mounted, appVars, rendered, pendingUpdates, callVars, mvLoadVars,
                 mvPending, viewport, zoomK, zoomX, scene, exportVars, csGeo, csMeta,
                 csIsMounted, countries, csShown, lateSetters, histVars>>

\* The cleanup of the previous run of the render effect removes its listener
\* (a run that returned at the guard registered none).
AfterCleanup(n) == IF n > 0 THEN n - 1 ELSE 0

\* The tree is unmounted: effect cleanups run (isMounted = false, the resize
\* listener is removed).
Teardown ==
  /\ mounted
  /\ mounted' = FALSE
  /\ csIsMounted' = FALSE
  /\ resizeListeners' = AfterCleanup(resizeListeners)
  /\ UNCHANGED <<atlas, pointerVars, appVars, rendered, pendingUpdates, callVars, mvLoadVars, mvPending,
                 viewport, zoomK, zoomX, scene, exportVars, csGeo, csMeta, csLoad, countries,
                 csShown, lateSetters, histVars>>

(***************************************************************************)
(* Rendering                                                               *)
(***************************************************************************)
\* String(d.id) of the features
FeatureIds(features) == {StringOf(features[i].id) : i \in 1..Len(features)}

\* Math.round(lng / 360)
RoundTurns(lng) == (2 * lng + 360) \div 720

\* WrapLng that also brings back the two meridians at +-180 degrees.
WrapLngAtEdge(lng) == IF lng >= 180 \/ lng <= -180 THEN lng - RoundTurns(lng) * 360 ELSE lng

\* Longitude as the projection sees it: beyond +-180 degrees it is brought
\* back by whole turns; inside it is left alone.
WrapLng(lng) == IF lng > 180 \/ lng < -180 THEN lng - RoundTurns(lng) * 360 ELSE lng

\* d3.geoEquirectangular().scale(width / (2 * Math.PI))
\*   .translate([width / 2, height / 2 + height * 0.1])
\* x = width / 2 + width * lng / 360, y = 0.6 * height - width * lat / 360.
\* Both are kept exact by counting in 1/360 of a pixel.
ProjectX(lng, width) == 180 * width + width * WrapLng(lng)

ProjectY(lat, width) == 216 * HeightOf(width) - width * lat

\* cx and cy of a city's circle: projection([d.lng, d.lat])?.[i] || 0, where
\* a coordinate that is not a number projects to NaN.
MarkerAt(city, width) ==
  [cx |-> IF city.lngT = "number" THEN ProjectX(city.lng, width) ELSE 0,
   cy |-> IF city.latT = "number" THEN ProjectY(city.lat, width) ELSE 0]

\* What the render effect appends to the svg: one group with the background
\* rectangle, one path per feature (highlighted when selected) and one marker
\* group per city.  The new group carries no transform attribute.
DrawScene(features, props, width) ==
  [drawn |-> TRUE,
   groups |-> 1,
   rects |-> 1,
   paths |-> Len(features),
   sel |-> {id \in FeatureIds(features) : id \in props.selectedCountryIds},
   cities |-> props.cities,
   markers |-> [i \in 1..Len(props.cities) |-> MarkerAt(props.cities[i], width)],
   color |-> props.countryColor,
   width |-> width,
   transform |-> 0,
   translate |-> 0]

\* RemoveAll that leaves the groups of earlier renders in place.
RemoveAllKeeps(n) == n

\* svg.selectAll('*').remove(): the groups left of n.
RemoveAll(n) == 0

\* React flushes the queued updates: App re-renders when its state changed
\* (its children with it), MapView and CountrySelector when theirs did; the
\* render effect of MapView runs when MapView rendered with geometry.
Render ==
  /\ mounted
  /\ pendingUpdates > 0 \/ mvPending \/ csShown # countries
  /\ rendered' = IF pendingUpdates > 0 THEN Snapshot(TRUE) ELSE rendered
  /\ pendingUpdates' = 0
  /\ mvPending' = FALSE
  /\ csShown' = countries
  /\ LET redraw == worldData.loaded /\ (pendingUpdates > 0 \/ mvPending)
         drawn == DrawScene(worldData.features, rendered', viewport)
     IN /\ scene' = IF redraw
                       THEN [drawn EXCEPT !.groups = RemoveAll(scene.groups) + @]
                       ELSE scene
        /\ resizeListeners' = IF redraw THEN AfterCleanup(resizeListeners) + 1
                                ELSE resizeListeners
        \* the paths are new elements: none of them has seen the pointer
        /\ entered' = IF redraw THEN FALSE ELSE entered
  /\ UNCHANGED <<atlas, pointerOver, tooltip, mounted, appVars, callVars, mvLoadVars, viewport, zoomK, zoomX,
                 exportVars, csGeo, csMeta, csLoad, csIsMounted, countries,
                 lateSetters, histVars>>

\* Click on a country button of the rendered list: onToggle(c.id).
ListClick(id) ==
  /\ mounted
  /\ pendingUpdates < MaxPending
  /\ id \in {csShown[i].id : i \in 1..Len(csShown)}
  /\ handleToggleCountry(id)
  /\ tog' = Toggled(id, "list")

\* Click on a country path of the drawn scene: onCountryClick(String(d.id)).
MapClick(id) ==
  /\ mounted
  /\ pendingUpdates < MaxPending
  /\ scene.drawn
  /\ id \in FeatureIds(worldData.features)
  /\ handleToggleCountry(id)
  /\ tog' = Toggled(id, "map")

\* The container is resized; handleResize (registered by the render effect)
\* rewrites the svg's width and height attributes.
Resize(w) ==
  /\ mounted
  /\ w # viewport
  /\ viewport' = w
  /\ scene' = IF scene.drawn THEN [scene EXCEPT !.width = w] ELSE scene
  /\ UNCHANGED <<atlas, pointerVars, resizeListeners, mounted, appVars, rendered, pendingUpdates, callVars, mvLoadVars,
                 mvPending, zoomK, zoomX, exportVars, csVars, lateSetters, histVars>>

MinScale == 1
MaxScale == 15

\* ClampScale with the lower end of the extent left out.
ClampScaleAbove(k) == IF k > MaxScale THEN MaxScale ELSE k

\* d3.zoom().scaleExtent([1, 15])
ClampScale(k) == IF k < MinScale THEN MinScale ELSE IF k > MaxScale THEN MaxScale ELSE k

\* Scales a gesture asks for (below, inside and above the extent).
ZoomRequests == {0, 2, 20}

\* A zoom gesture on the svg asking for scale k: the zoom behaviour clamps it
\* and, when the scale changes, keeps it on the node and emits 'zoom', whose
\* listener writes the node's transform to the current group.
Zoom(k) ==
  /\ mounted
  /\ scene.drawn
  /\ ClampScale(k) # zoomK
  /\ zoomK' = ClampScale(k)
  /\ scene' = [scene EXCEPT !.transform = zoomK', !.translate = zoomX]
  /\ UNCHANGED <<atlas, pointerVars, resizeListeners, zoomX, mounted, appVars, rendered, pendingUpdates, callVars, mvLoadVars,
                 mvPending, viewport, exportVars, csVars, lateSetters, histVars>>

\* Pixels of one drag.
PanStep == 800

\* A drag on the svg by dx steps: no translateExtent is configured, so the
\* behaviour accepts any translation; the listener writes the node's
\* transform to the current group.
Pan(dx) ==
  /\ mounted
  /\ scene.drawn
  /\ dx # 0
  /\ zoomX + dx \in -MaxPan..MaxPan
  /\ zoomX' = zoomX + dx
  /\ scene' = [scene EXCEPT !.transform = zoomK, !.translate = zoomX']
  /\ UNCHANGED <<atlas, pointerVars, resizeListeners, zoomK, mounted, appVars, rendered,
                 pendingUpdates, callVars, mvLoadVars, mvPending, viewport, exportVars,
                 csVars, lateSetters, histVars>>

\* Where the pointer can be: over one of the paths, or over none (0).
Positions == 0..Len(WorldAtlas)

\* nameMap[d.id] || d.properties.name
TooltipText(f) ==
  LET key == StringOf(f.id)
      zhName == IF key \in DOMAIN nameMap THEN nameMap[key] ELSE Undefined
  IN IF zhName \notin {Undefined, ""} THEN zhName ELSE f.name

\* The pointer moves onto feature i (0: onto no feature).  The browser sends
\* 'mouseleave' to the path the pointer was in, when that element is still the
\* one it delivered events to, and 'mousemove' to the path it is over now.
PointerMove(i) ==
  /\ mounted
  /\ scene.drawn
  /\ i \in 0..Len(worldData.features)
  /\ i # 0 \/ pointerOver # 0
  /\ pointerOver' = i
  /\ entered' = (i # 0)
  /\ LET left == entered /\ i # pointerOver
         afterLeave == IF left THEN [tooltip EXCEPT !.display = "none"] ELSE tooltip
     IN tooltip' = IF i # 0
                     THEN [display |-> "block", text |-> TooltipText(worldData.features[i])]
                     ELSE afterLeave
  /\ UNCHANGED <<atlas, resizeListeners, mounted, appVars, rendered, pendingUpdates,
                 callVars, mvLoadVars, mvPending, viewport, zoomK, zoomX, scene,
                 exportVars, csVars, lateSetters, histVars>>

(***************************************************************************)
(* Export                                                                  *)
(***************************************************************************)
\* if (!svgRef.current) return;  -- the svg element exists while MapView is
\* mounted, whether or not geometry has loaded.
SvgRefCurrent == mounted

\* DrawnImage as a plausible slip: the svg is serialized in the load callback.
DrawnImageAtLoad(job, sceneNow) == sceneNow

\* What the image-load callback draws: the image decoded from the svgData
\* serialized when exportToPng was called, on the canvas sized at that call.
DrawnImage(job, sceneNow) == job.svgData

\* Click on the export button: exportToPng up to img.src = url.  `at` is
\* history: the scene, the viewport and the load state at the call.
ExportClick ==
  /\ mounted
  /\ rendered.exportBound
  /\ Len(exports) < MaxExports
  /\ SvgRefCurrent
  /\ exports' = Append(exports,
                  [svgData |-> scene, width |-> 2 * viewport,
                   height |-> 2 * HeightOf(viewport),
                   at |-> [scene |-> scene, viewport |-> viewport,
                           loaded |-> worldData.loaded]])
  /\ UNCHANGED <<atlas, pointerVars, resizeListeners, mounted, appVars, rendered, pendingUpdates, callVars, mvLoadVars,
                 mvPending, viewport, zoomK, zoomX, scene, download, csVars, lateSetters,
                 histVars>>

\* img.onload of export i: fill white, draw the image, download the PNG.
\* `changed` is history: scene and viewport have both changed since the call.
ImageLoads(i) ==
  /\ i \in 1..Len(exports)
  /\ download' = [file |-> "world-travel-map.png",
                  image |-> DrawnImage(exports[i], scene),
                  width |-> exports[i].width,
                  height |-> exports[i].height,
                  at |-> exports[i].at,
                  changed |-> scene # exports[i].at.scene
                                /\ viewport # exports[i].at.viewport]
  /\ exports' = SubSeq(exports, 1, i - 1) \o SubSeq(exports, i + 1, Len(exports))
  /\ UNCHANGED <<atlas, pointerVars, resizeListeners, mounted, appVars, rendered, pendingUpdates, callVars, mvLoadVars,
                 mvPending, viewport, zoomK, zoomX, scene, csVars, lateSetters, histVars>>

(***************************************************************************)
(* Specifications                                                          *)
(***************************************************************************)
Next ==
  \/ \E t \in Texts : TypeCity(t)
  \/ \E c \in Colors : SetCountryColor(c)
  \/ SubmitCity
  \/ \E r \in Responses : ResolveSettles(r)
  \/ \E index \in 0..MaxCities : removeCity(index)
  \/ ClearAll
  \/ \E id \in Ids : ListClick(id)
  \/ \E id \in Ids : MapClick(id)
  \/ \E how \in Settled : MvGeoSettles(how)
  \/ \E how \in Settled : MvMetaSettles(how)
  \/ MvLoadThen
  \/ MvLoadFails
  \/ \E how \in Settled : CsGeoSettles(how)
  \/ \E how \in Settled : CsMetaSettles(how)
  \/ CsLoadThen
  \/ CsLoadFails
  \/ Render
  \/ \E w \in Widths : Resize(w)
  \/ \E k \in ZoomRequests : Zoom(k)
  \/ \E dx \in {-1, 1} : Pan(dx)
  \/ \E i \in Positions : PointerMove(i)
  \/ ExportClick
  \/ \E i \in 1..MaxExports : ImageLoads(i)
  \/ Teardown

Spec == Init /\ [][Next]_vars

\* The whole application is Spec.  The specifications below are sessions in
\* which only some of the events occur; every behaviour of one of them is a
\* behaviour of Spec.

\* The geometry source serves the one-country document.
InitSmall == Init /\ atlas = SmallAtlas

\* The geometry source serves the two-country document.
InitWorld == Init /\ atlas = WorldAtlas

\* The geometry source serves the document with geometries without id.
InitIdless == Init /\ atlas = IdlessAtlas

\* The city form: typing, submitting, resolution, removal, clear-all.
NextCity ==
  \/ \E t \in Texts : TypeCity(t)
  \/ SubmitCity
  \/ \E r \in Responses : ResolveSettles(r)
  \/ \E index \in 0..MaxCities : removeCity(index)
  \/ ClearAll
  \/ Render

SpecCity == InitSmall /\ [][NextCity]_vars

\* Selection: the two loads, then toggles from the list and from the map.
NextSel ==
  \/ \E how \in Settled : MvGeoSettles(how)
  \/ \E how \in Settled : MvMetaSettles(how)
  \/ MvLoadThen
  \/ \E how \in Settled : CsGeoSettles(how)
  \/ \E how \in Settled : CsMetaSettles(how)
  \/ CsLoadThen
  \/ \E id \in Ids : ListClick(id)
  \/ \E id \in Ids : MapClick(id)
  \/ ClearAll
  \/ Render

SpecSel == InitWorld /\ [][NextSel]_vars

\* Export: the map loads, selection and style change, exports start and finish.
NextExport ==
  \/ \E how \in Settled : MvGeoSettles(how)
  \/ \E how \in Settled : MvMetaSettles(how)
  \/ MvLoadThen
  \/ \E id \in Ids : MapClick(id)
  \/ \E c \in Colors : SetCountryColor(c)
  \/ Render
  \/ ExportClick
  \/ \E i \in 1..MaxExports : ImageLoads(i)

SpecExport == InitSmall /\ [][NextExport]_vars

\* The state after the first city has been added and rendered, before either
\* load has finished (SpecCity reaches it: type, render, submit, settle, render).
AfterFirstCity ==
  /\ atlas = SmallAtlas
  /\ mounted = TRUE
  /\ selectedCountryIds = {}
  /\ cities = <<Shanghai>>
  /\ cityInput = <<>>
  /\ isLocating = FALSE
  /\ countryColor = "#f97316"
  /\ rendered = [selectedCountryIds |-> {}, cities |-> <<Shanghai>>, cityInput |-> <<>>,
                 isLocating |-> FALSE, countryColor |-> "#f97316", exportBound |-> TRUE]
  /\ pendingUpdates = 0
  /\ inFlight = 0
  /\ lastResponse = "parsed"
  /\ alertRaised = FALSE
  /\ mvGeo = "pending"
  /\ mvMeta = "pending"
  /\ mvLoad = "waiting"
  /\ worldData = NoWorldData
  /\ nameMap = EmptyNameMap
  /\ mvPending = FALSE
  /\ viewport \in Widths
  /\ zoomK = 1
  /\ zoomX = 0
  /\ scene = EmptyScene
  /\ resizeListeners = 0
  /\ pointerOver = 0
  /\ entered = FALSE
  /\ tooltip = NoTooltip
  /\ exports = <<>>
  /\ download = NoDownload
  /\ csGeo = "pending"
  /\ csMeta = "pending"
  /\ csLoad = "waiting"
  /\ csIsMounted = TRUE
  /\ countries = <<>>
  /\ csShown = <<>>
  /\ lateSetters = {}
  /\ tog = NoTog
  /\ rt = [idx |-> 0, base |-> <<>>, removed |-> FALSE]

\* Scales asked for in the snapshot session (zooming in).
SnapshotZoomRequests == {k \in ZoomRequests : k > MaxScale}

\* One export at a time while what the scene shows keeps changing:
\* selection, cities, viewport size and zoom.
NextSnapshot ==
  \/ \E how \in Settled : MvGeoSettles(how)
  \/ \E how \in Settled : MvMetaSettles(how)
  \/ MvLoadThen
  \/ \E id \in Ids : MapClick(id)
  \/ \E index \in 0..MaxCities : removeCity(index)
  \/ \E w \in Widths : Resize(w)
  \/ \E k \in SnapshotZoomRequests : Zoom(k)
  \/ Render
  \/ ExportClick /\ exports = <<>>
  \/ \E i \in 1..MaxExports : ImageLoads(i)

SpecSnapshot == AfterFirstCity /\ [][NextSnapshot]_vars

\* Every cause of a re-render of the drawn map: selection, style, cities and
\* the size of the container.
NextScene ==
  \/ MvGeoSettles("fulfilled")
  \/ MvMetaSettles("fulfilled")
  \/ MvLoadThen
  \/ \E id \in Ids : MapClick(id)
  \/ \E c \in Colors : SetCountryColor(c)
  \/ \E index \in 0..MaxCities : removeCity(index)
  \/ \E w \in Widths : Resize(w)
  \/ Render

SpecScene == AfterFirstCity /\ [][NextScene]_vars

\* Loading: the fetches of both components and the unmount of the tree.
NextLoad ==
  \/ \E how \in Settled : MvGeoSettles(how)
  \/ \E how \in Settled : MvMetaSettles(how)
  \/ MvLoadThen
  \/ MvLoadFails
  \/ \E how \in Settled : CsGeoSettles(how)
  \/ \E how \in Settled : CsMetaSettles(how)
  \/ CsLoadThen
  \/ CsLoadFails
  \/ Render
  \/ Teardown

SpecLoad == Init /\ [][NextLoad]_vars

\* Responses of the resolution service in the teardown session.
TeardownResponses ==
  {r \in Responses : r.how = "rejected" \/ (r.how = "parsed" /\ r.value = Shanghai)}

\* Teardown with work in flight: the fetches, a resolution call, the unmount.
NextTeardown ==
  \/ \E how \in Settled : MvGeoSettles(how)
  \/ \E how \in Settled : MvMetaSettles(how)
  \/ MvLoadThen
  \/ \E how \in Settled : CsGeoSettles(how)
  \/ \E how \in Settled : CsMetaSettles(how)
  \/ CsLoadThen
  \/ \E t \in Texts : TypeCity(t)
  \/ SubmitCity
  \/ \E r \in TeardownResponses : ResolveSettles(r)
  \/ Render
  \/ Teardown

SpecTeardown == InitSmall /\ [][NextTeardown]_vars

\* Answers of the resolution service in the marker session.
MarkerResponses ==
  {[how |-> "parsed", value |-> v] : v \in {SouthWest, Shanghai, NorthEast, FarOut}}

\* Cities are added to the loaded map and drawn.
NextMarkers ==
  \/ MvGeoSettles("fulfilled")
  \/ MvMetaSettles("fulfilled")
  \/ MvLoadThen
  \/ TypeCity(<<"s">>)
  \/ SubmitCity
  \/ \E r \in MarkerResponses : ResolveSettles(r)
  \/ Render

SpecMarkers == InitSmall /\ [][NextMarkers]_vars

\* The pointer moves over the loaded map and clicks countries.
NextHover ==
  \/ MvGeoSettles("fulfilled")
  \/ MvMetaSettles("fulfilled")
  \/ MvLoadThen
  \/ \E i \in Positions : PointerMove(i)
  \/ \E id \in Ids : MapClick(id)
  \/ Render

SpecHover == InitWorld /\ [][NextHover]_vars

\* Answers of the resolution service in the in-flight session.
InFlightResponses ==
  {r \in Responses : r.how = "rejected" \/ (r.how = "parsed" /\ r.value = Shanghai)}

\* The session is edited while a call is in flight: rows are removed, the
\* session is cleared, countries are toggled from the list, the colour changes.
NextInFlight ==
  \/ CsGeoSettles("fulfilled")
  \/ CsMetaSettles("fulfilled")
  \/ CsLoadThen
  \/ TypeCity(<<"s">>)
  \/ SubmitCity
  \/ \E r \in InFlightResponses : ResolveSettles(r)
  \/ \E index \in 0..MaxCities : removeCity(index)
  \/ ClearAll
  \/ \E id \in Ids : ListClick(id)
  \/ \E c \in Colors : SetCountryColor(c)
  \/ Render

SpecInFlight == InitSmall /\ [][NextInFlight]_vars

\* Hovering and clicking the countries of the document with missing ids.
SpecKeys == InitIdless /\ [][NextHover]_vars

\* Panning and zooming the loaded map while the selection changes.
NextZoom ==
  \/ MvGeoSettles("fulfilled")
  \/ MvMetaSettles("fulfilled")
  \/ MvLoadThen
  \/ \E id \in Ids : MapClick(id)
  \/ \E k \in ZoomRequests : Zoom(k)
  \/ \E dx \in {-1, 1} : Pan(dx)
  \/ Render

SpecZoom == InitSmall /\ [][NextZoom]_vars

(***************************************************************************)
(* Properties                                                              *)
(***************************************************************************)
\* C1: at most one location-resolution call is in flight at any time; a
\* submit that arrives before an earlier call has settled starts no new call,
\* even when it arrives before the re-render that follows the first submit.
C1_AtMostOneCallInFlight == inFlight <= 1

\* C2: when a location-resolution call fails (the service rejects, or the
\* body does not parse), the step that settles it leaves the city sequence and
\* the text input as they were and raises the alert.
C2_FailureLeavesStateUntouched ==
  [][(inFlight' = inFlight - 1 /\ lastResponse' \in {"rejected", "unparseable"})
       => (cities' = cities /\ cityInput' = cityInput /\ alertRaised')]_vars

\* A call has failed while the list held a city and the input held text.
C2_Witness ==
  /\ lastResponse \in {"rejected", "unparseable"}
  /\ alertRaised
  /\ cities # <<>>
  /\ Trim(cityInput) # <<>>

\* C3: every element of the city sequence is an object with numeric lat and
\* lng; a response that parses but lacks them appends nothing.
C3_EveryMarkerHasNumericCoordinates ==
  \A i \in 1..Len(cities) : IsCityMarker(cities[i])

\* C4: after two consecutive toggles of the same id, from the list or from
\* the map in any mix, the selection has exactly the membership it had before
\* the first of them.
C4_ToggleTwiceRestores == tog.n = 2 => selectedCountryIds = tog.base

\* One toggle from the list and one from the map, from a non-empty selection.
C4_Witness == tog.n = 2 /\ tog.from = {"list", "map"} /\ tog.base # {}

\* C5: appending a marker and then removing the index it was appended at
\* gives back the sequence as it was before the append, order included.
C5_AppendThenRemoveRestores == rt.removed => cities = rt.base

\* The round trip has been made on a sequence of two markers.
C5_Witness == rt.removed /\ Len(rt.base) = 2 /\ rt.base[1] # rt.base[2]

\* C6: an export invoked while the geometry has not loaded does nothing: it
\* prepares no raster and no file is downloaded.
C6_ExportBeforeLoadIsNoOp ==
  /\ \A i \in 1..Len(exports) : exports[i].at.loaded
  /\ download.file # "" => download.at.loaded

\* C7: the downloaded image is the scene as it was when exportToPng was
\* called, at twice the viewport size of that moment, whatever changed before
\* the image-load callback ran.
C7_DownloadShowsSceneAtInvocation ==
  download.file # "" =>
    /\ download.image = download.at.scene
    /\ download.width = 2 * download.at.viewport
    /\ download.height = 2 * HeightOf(download.at.viewport)

\* A drawn scene was exported, and both the scene and the viewport changed
\* between the call and the image-load callback.
C7_Witness == download.file # "" /\ download.at.scene.drawn /\ download.changed

\* C8: at most one export is in progress at any time.
C8_AtMostOneExportInProgress == Len(exports) <= 1

\* C9: after teardown no component has a state setter invoked by a result
\* that arrives late.
C9_NoSetterAfterTeardown == lateSetters = {}

\* C10: the feature set and the name map of MapView, and the country list of
\* CountrySelector, are built only after both of the component's fetches have
\* completed.
C10_BuiltAfterBothFetches ==
  /\ (worldData.loaded \/ nameMap # EmptyNameMap \/ mvLoad = "done")
       => (mvGeo = "fulfilled" /\ mvMeta = "fulfilled")
  /\ (countries # <<>> \/ csLoad \in {"done", "discarded"})
       => (csGeo = "fulfilled" /\ csMeta = "fulfilled")

\* Both components have built their data.
C10_Witness == worldData.loaded /\ nameMap # EmptyNameMap /\ countries # <<>>

\* A feature of the map, or an entry of the selector's list, that denotes
\* Antarctica: by the id "010" or by the name (as served or as localized).
DenotesAntarctica(id, name) ==
  id = "010" \/ name \in {"Antarctica", Localize("Antarctica")}

\* C11: neither the feature set of the map nor the country list of the
\* selector holds a feature that denotes Antarctica, whichever document the
\* geometry source serves, also when the id is "010" under another or no name
\* and when the name is "Antarctica" under another or no id.
C11_NoAntarctica ==
  /\ \A i \in 1..Len(worldData.features) :
       ~DenotesAntarctica(worldData.features[i].id, worldData.features[i].name)
  /\ \A i \in 1..Len(countries) :
       ~DenotesAntarctica(countries[i].id, countries[i].name)

\* Both components have loaded the document with the four Antarctica variants.
C11_Witness == atlas = PolarAtlas /\ worldData.loaded /\ countries # <<>>

\* C14: when a fetch of the map fails entirely the map stays in the loading
\* state, installs nothing, and no error escapes the load uncaught.
C14_TotalFailureStaysLoadingQuietly ==
  (mvGeo = "rejected" \/ mvMeta = "rejected")
    => (~worldData.loaded /\ nameMap = EmptyNameMap /\ mvLoad # "unhandled")

\* The geometries of a document that are well formed and not Antarctica.
WellFormed(doc) ==
  {i \in 1..Len(doc) :
     /\ doc[i].name \notin {NoProperties, Undefined}
     /\ doc[i].id # Undefined
     /\ ~DenotesAntarctica(doc[i].id, doc[i].name)}

\* C15: a geometry that lacks a required field is skipped on its own: once a
\* component's load has run, every well-formed feature is in the map's feature
\* set and in the selector's list, and the malformed one is in neither.
C15_OnlyMalformedFeatureSkipped ==
  /\ mvLoad = "done" =>
       /\ \A i \in WellFormed(atlas) : atlas[i].id \in FeatureIds(worldData.features)
       /\ \A j \in 1..Len(worldData.features) : worldData.features[j].name # Undefined
  /\ csLoad \in {"done", "caught"} /\ csGeo = "fulfilled" /\ csMeta = "fulfilled" =>
       \A i \in WellFormed(atlas) :
         \E j \in 1..Len(countries) : countries[j].id = atlas[i].id

\* The transform in effect on the content group: a group without the
\* attribute is shown untransformed (scale 1, no translation).
Applied(s) == IF s.transform = 0 THEN <<1, 0>> ELSE <<s.transform, s.translate>>

\* C12: the transform in effect on the scene changes only in a pan or zoom
\* gesture (a step that changes the zoom state); a re-render after a toggle,
\* a city change or a style change leaves it as it was.
C12_TransformChangesOnlyByGesture ==
  [][Applied(scene') # Applied(scene) => <<zoomK', zoomX'>> # <<zoomK, zoomX>>]_vars

\* C13: whatever zoom gestures and re-renders have happened, the scale of the
\* zoom state and the scale applied to the scene stay within [1, 15].
C13_ScaleWithinExtent ==
  /\ zoomK \in MinScale..MaxScale
  /\ Applied(scene)[1] \in MinScale..MaxScale

\* The scene is at the largest scale after zooming, and is dragged so far to
\* the right that no part of the map is left in the viewport: the translation
\* has no bound.
C13_Witness ==
  /\ scene.drawn
  /\ scene.transform = MaxScale
  /\ scene.translate * PanStep >= scene.width

\* C16: once the map has been drawn, a click on the export button starts an
\* export, in every reachable state: the button's handler is bound to
\* exportToPng whenever the scene is drawn, also when no App state has changed
\* since the application first rendered.
C16_ExportTriggerLiveOnceDrawn ==
  mounted /\ scene.drawn => rendered.exportBound

\* A city whose coordinates are numbers inside the domain of the projection.
InDomain(city) ==
  /\ IsCityMarker(city)
  /\ city.lng \in -180..180
  /\ city.lat \in -90..90

\* C17: over the domain (longitude in [-180, 180], latitude in [-90, 90]) the
\* projection is monotonic in each axis: of two markers drawn in one scene
\* the one farther east is not drawn farther left, and the one farther north
\* is not drawn lower.
C17_ProjectionMonotonic ==
  \A i, j \in 1..Len(scene.markers) :
    InDomain(scene.cities[i]) /\ InDomain(scene.cities[j]) =>
      /\ scene.cities[i].lng <= scene.cities[j].lng
           => scene.markers[i].cx <= scene.markers[j].cx
      /\ scene.cities[i].lat <= scene.cities[j].lat
           => scene.markers[i].cy >= scene.markers[j].cy

\* Three markers at different in-domain coordinates are drawn, the two ends
\* of both axes among them.
C17_Witness ==
  /\ scene.drawn
  /\ \E i, j, k \in 1..Len(scene.markers) :
       /\ scene.cities[i] = SouthWest
       /\ scene.cities[j] = Shanghai
       /\ scene.cities[k] = NorthEast

\* The nearest value of the interval lo..hi.
ClampTo(x, lo, hi) == IF x < lo THEN lo ELSE IF x > hi THEN hi ELSE x

\* C18: a city with numeric coordinates outside the domain is drawn where
\* the nearest in-domain coordinate is drawn (the coordinates are clamped
\* before they are projected).
C18_OutOfDomainDrawnClamped ==
  \A i \in 1..Len(scene.markers) :
    IsCityMarker(scene.cities[i]) =>
      \E w \in Widths :
        /\ scene.markers[i].cx = ProjectX(ClampTo(scene.cities[i].lng, -180, 180), w)
        /\ scene.markers[i].cy = ProjectY(ClampTo(scene.cities[i].lat, -90, 90), w)

\* C19: a re-render replaces the scene it finds: whenever the map is drawn the
\* svg holds one content group with one background rectangle, one path per
\* loaded feature and one marker group per city of the rendered sequence, and
\* one resize listener of the render effect is registered on window.
C19_RenderReplacesScene ==
  mounted /\ scene.drawn =>
    /\ scene.groups = 1
    /\ scene.rects = 1
    /\ scene.paths = Len(worldData.features)
    /\ Len(scene.markers) = Len(rendered.cities)
    /\ resizeListeners = 1

\* The scene has been redrawn over an earlier scene that held a marker: the
\* selection changed and the city was removed after the map was first drawn.
C19_Witness ==
  /\ mounted
  /\ scene.drawn
  /\ scene.sel # {}
  /\ scene.cities = <<>>
  /\ rt.removed

\* C20: whenever the pointer is over no country the tooltip is hidden, also
\* when the path it was over has been replaced by a re-render before it moved
\* off.
C20_TooltipHiddenOffFeatures ==
  pointerOver = 0 => tooltip.display = "none"

\* C21: a step in which a location-resolution call settles, by success or by
\* failure, leaves isLocating false; isLocating is true only while a call is
\* in flight; and once App has rendered the settled state its handlers see
\* the flag false, so that a submit with non-blank input is accepted again.
C21_BusyFlagClearedWhenCallSettles ==
  [][/\ inFlight' < inFlight => ~isLocating'
     /\ isLocating' => inFlight' > 0
     /\ (mounted' /\ pendingUpdates' = 0) => rendered'.isLocating = isLocating']_vars

\* A call has failed, and a later submit has been accepted: the next call is
\* in flight.
C21_Witness ==
  /\ lastResponse \in {"rejected", "unparseable"}
  /\ inFlight > 0
  /\ isLocating

\* C22: the step in which a call completes with a parsed answer appends the
\* new marker to the city sequence as it is at that moment, whatever was
\* removed or cleared while the call was in flight, and leaves the selection
\* and the style as they are at that moment.
C22_CompletionKeepsConcurrentEdits ==
  [][(inFlight' < inFlight /\ lastResponse' = "parsed") =>
       /\ Len(cities') = Len(cities) + 1
       /\ SubSeq(cities', 1, Len(cities)) = cities
       /\ selectedCountryIds' = selectedCountryIds
       /\ countryColor' = countryColor]_vars

\* The last call in flight has just completed with a parsed answer.  App
\* last rendered while a call was in flight (its handlers still see
\* isLocating, so no submit was accepted since); after that render a row was
\* removed and a country was toggled, and the marker has been appended to the
\* shortened sequence.
C22_Witness ==
  /\ lastResponse = "parsed"
  /\ inFlight = 0
  /\ rendered.isLocating
  /\ rt.idx >= 1
  /\ ~rt.removed
  /\ Len(cities) = rt.idx + 1
  /\ rt.idx < Len(rendered.cities)
  /\ selectedCountryIds # rendered.selectedCountryIds

\* The loaded features that the drawn scene shows highlighted:
\* selectedCountryIds.has(String(d.id)).
Highlighted ==
  {i \in 1..Len(worldData.features) : StringOf(worldData.features[i].id) \in scene.sel}

\* C23: distinct loaded features have distinct String(id) keys, also the
\* features whose source record carries no id, so that a click on one feature
\* changes the highlight of that feature and of no other: the drawn scene
\* highlights one feature for each selected key.
C23_OneFeaturePerKey ==
  /\ \A i, j \in 1..Len(worldData.features) :
       i # j => StringOf(worldData.features[i].id) # StringOf(worldData.features[j].id)
  /\ scene.drawn => Cardinality(Highlighted) = Cardinality(scene.sel)

====
